---- MODULE Spec2Model ----
(***************************************************************************)
(* Model of src/src/actuareveeyespy.cpp: the two-axis mount controller.    *)
(* setup() (boot, WiFi wait, homing loop) and loop() (force-stop sample,   *)
(* stepper ticks, client accept, byte drain, processPacket) are modelled   *)
(* as a single thread of control (pc) running against an environment that  *)
(* drives the force-stop pin, the homing buttons, the clock and the TCP    *)
(* clients.  Angles are whole degrees.  The float arithmetic of the source  *)
(* is modelled by exact rational arithmetic and the float -> long          *)
(* conversion at AccelStepper::moveTo(long) by truncation toward zero;     *)
(* where the exact result is a whole number of steps, the rounding of the  *)
(* float product may leave it just inside that number, and the step next   *)
(* to it toward zero is a possible outcome too.                            *)
(***************************************************************************)
EXTENDS Integers, Sequences, FiniteSets, TLC

VARIABLES
  pc,                 \* position of the single thread in setup()/loop()
  enPin,              \* EN_PIN output: "UNSET" until pinMode/digitalWrite
  forceStopPin,       \* level of FORCE_STOP_PIN (environment)
  storage,            \* what SPIFFS.begin and SPIFFS.open meet (environment)
  isEmergencyStopped,
  azHomed,
  altHomed,
  azPos,              \* azStepper.currentPosition()
  azTarget,           \* azStepper.targetPosition()
  altPos,
  altTarget,
  inputBuffer,
  lastPacketTime,
  listening,          \* server.begin() has been called
  client,             \* the static WiFiClient of loop(): 0 = empty, else
                      \* the serial number of its connection
  connected,          \* client.connected()
  rx,                 \* bytes received on client's connection, not yet read
  waiting,            \* connection waiting in the server's backlog (0: none)
  waitingRx,          \* bytes already received on the waiting connection
  wire,               \* bytes sent on a connection and still in flight
  sent,               \* records sent so far on all connections
  connsMade,          \* connections made so far
  azResets,           \* calls of azStepper.setCurrentPosition(0)
  altResets,          \* calls of altStepper.setCurrentPosition(0)
  stopLatched,        \* history: the emergency stop has been latched
  req,                \* requested angle of the resolver specifications
  tracing,            \* the history variables below are recorded
  arrived,            \* history: bytes received on connection 1
  consumed,           \* history: bytes of connection 1 client.read() gave
  handed,             \* history: records of connection 1 handed to
                      \* processPacket
  ticked,             \* history: run() called on each axis since the last
                      \* byte read (or the start of the loop iteration)
  readSaw             \* history: ticked, as the last byte read found it

vars == <<pc, enPin, forceStopPin, storage, isEmergencyStopped, azHomed,
          altHomed,
          azPos, azTarget, altPos, altTarget, inputBuffer, lastPacketTime,
          listening, client, connected, rx, waiting, waitingRx, wire,
          sent, connsMade, azResets, altResets, stopLatched, req,
          tracing, arrived, consumed, handed, ticked, readSaw>>

(***************************************************************************)
(* Bounds of the model.                                                    *)
(***************************************************************************)
MaxPos == 1        \* steps the two axes may be away from their origins
MaxTime == 1       \* readings of millis() after the first
MaxConns == 2      \* TCP connections ever made
MaxRecords == 2    \* records sent on all connections altogether
MaxRx == 1         \* bytes buffered by the network layer per connection

(***************************************************************************)
(* Program constants.                                                      *)
(***************************************************************************)
MICROSTEPS == 2
ALT_MAX == 54
ALT_MIN == -50
POSITION_TIMEOUT == 5000
FullTurn == 360
\* AZ_STEPS_PER_DEG = AzStepsPerRev / 360, ALT_STEPS_PER_DEG likewise
AzStepsPerRev == (200 * MICROSTEPS * 575) \div 100
AltStepsPerRev == 200 * MICROSTEPS * 8

LF == "\n"
CR == "\r"
SP == " "

(***************************************************************************)
(* Arduino String operations used by processPacket (0-based indices).      *)
(***************************************************************************)
IsSpace(c) == c \in {SP, CR, LF}

Digits == <<"0", "1", "2", "3", "4", "5", "6", "7", "8", "9">>

IsDigit(c) == \E i \in 1..10 : Digits[i] = c

DigitVal(c) == (CHOOSE i \in 1..10 : Digits[i] = c) - 1

\* An int passed as an unsigned int index of s: a negative one converts to
\* a value beyond any length.
AsIndex(s, n) == IF n < 0 THEN Len(s) + 1 ELSE n

\* String::substring(left, right): swaps the bounds when left > right,
\* clips to the length.
Substring(s, left, right) ==
  LET l == AsIndex(s, left)
      r == AsIndex(s, right)
      lo == IF l > r THEN r ELSE l
      hi0 == IF l > r THEN l ELSE r
      hi == IF hi0 > Len(s) THEN Len(s) ELSE hi0
  IN IF lo >= Len(s) THEN <<>> ELSE SubSeq(s, lo + 1, hi)

\* String::trim(): isspace() characters removed at both ends.
Trim(s) ==
  LET keep == {i \in 1..Len(s) : ~IsSpace(s[i])}
  IN IF keep = {} THEN <<>>
     ELSE SubSeq(s, CHOOSE i \in keep : \A j \in keep : i <= j,
                    CHOOSE i \in keep : \A j \in keep : i >= j)

\* String::indexOf(pat): first occurrence, -1 when absent.
IndexOf(s, pat) ==
  LET hits == {i \in 1..(Len(s) - Len(pat) + 1) :
                 SubSeq(s, i, i + Len(pat) - 1) = pat}
  IN IF hits = {} THEN -1
     ELSE (CHOOSE i \in hits : \A j \in hits : i <= j) - 1

\* The run of digits at the start of s, as a number.
RECURSIVE DigitsValue(_, _)
DigitsValue(s, acc) ==
  IF s = <<>> \/ ~IsDigit(Head(s)) THEN acc
  ELSE DigitsValue(Tail(s), 10 * acc + DigitVal(Head(s)))

\* String::toFloat() (atof): leading white space, an optional sign, digits;
\* conversion stops at the first other character, and text with no leading
\* number gives 0.
RECURSIVE ToFloat(_)
ToFloat(s) ==
  IF s = <<>> THEN 0
  ELSE IF IsSpace(Head(s)) THEN ToFloat(Tail(s))
  ELSE IF Head(s) = "-" THEN 0 - DigitsValue(Tail(s), 0)
  ELSE IF Head(s) = "+" THEN DigitsValue(Tail(s), 0)
  ELSE DigitsValue(s, 0)

AZ_MARK == <<"A", "Z", ":">>
ALT_MARK == <<"A", "L", "T", ":">>

(***************************************************************************)
(* Target resolver.  One degree is AzStepsPerRev "units" and one step is   *)
(* FullTurn units, so every quantity of setAzimuthTarget is an integer.    *)
(***************************************************************************)
Abs(n) == IF n < 0 THEN 0 - n ELSE n

\* (long) of a float: truncation toward zero of n / d, d > 0
TruncDiv(n, d) == IF n >= 0 THEN n \div d ELSE 0 - ((0 - n) \div d)

\* while (targetDeg >= 360) targetDeg -= 360; while (targetDeg < 0) += 360
NormalizeDeg(targetDeg) == targetDeg % FullTurn

\* Variant: the difference is used as computed, without the fold.
FoldDiffNone(diff) == diff

\* if (diff < -180) diff += 360; if (diff > 180) diff -= 360   (in units)
FoldDiff(diff) ==
  LET half == (FullTurn \div 2) * AzStepsPerRev
      turn == FullTurn * AzStepsPerRev
      d1 == IF diff < 0 - half THEN diff + turn ELSE diff
  IN IF d1 > half THEN d1 - turn ELSE d1

\* targetDeg - (currentDegRaw - 360 * floor(currentDegRaw / 360)), folded
AzDiff(targetDeg, currentSteps) ==
  LET turn == FullTurn * AzStepsPerRev
      curMod == (currentSteps * FullTurn) % turn
  IN FoldDiff(NormalizeDeg(targetDeg) * AzStepsPerRev - curMod)

Sgn(n) == IF n > 0 THEN 1 ELSE IF n < 0 THEN -1 ELSE 0

\* The values azStepper.moveTo can receive in setAzimuthTarget:
\* (long)(currentSteps + diff * AZ_STEPS_PER_DEG)
setAzimuthTarget(targetDeg, currentSteps) ==
  LET diff == AzDiff(targetDeg, currentSteps)
      n == currentSteps * FullTurn + diff
      exact == TruncDiv(n, FullTurn)
      inside == n % FullTurn = 0 /\ exact # 0
                /\ Abs(diff) < (FullTurn \div 2) * AzStepsPerRev
  IN {exact} \cup {t \in {exact - Sgn(exact)} : inside}

\* Variant: only the lower limit is applied.
ClampAltLowOnly(targetDeg) ==
  IF targetDeg < ALT_MIN THEN ALT_MIN ELSE targetDeg

\* if (targetDeg > ALT_MAX) targetDeg = ALT_MAX; if (< ALT_MIN) = ALT_MIN
ClampAlt(targetDeg) ==
  LET t1 == IF targetDeg > ALT_MAX THEN ALT_MAX ELSE targetDeg
  IN IF t1 < ALT_MIN THEN ALT_MIN ELSE t1

\* the argument of altStepper.moveTo in setAltitudeTarget
setAltitudeTarget(targetDeg) ==
  TruncDiv(ClampAlt(targetDeg) * AltStepsPerRev, FullTurn)

(***************************************************************************)
(* processPacket: the targets and the watchdog timestamp it can leave      *)
(* behind, given those it finds (st).                                      *)
(***************************************************************************)
\* Variant: one marker is enough.
HasMarkersEither(azIndex, altIndex) == azIndex # -1 \/ altIndex # -1

\* if (azIndex != -1 && altIndex != -1)
HasMarkers(azIndex, altIndex) == azIndex # -1 /\ altIndex # -1

CommandGate == ~isEmergencyStopped

processPacket(packet, curAz, st, millis) ==
  LET p == Trim(packet)
      azIndex == IndexOf(p, AZ_MARK)
      altIndex == IndexOf(p, ALT_MARK)
  IN IF HasMarkers(azIndex, altIndex)
     THEN LET newAz == ToFloat(Substring(p, azIndex + 3, altIndex))
              newAlt == ToFloat(Substring(p, altIndex + 4, Len(p)))
          IN IF CommandGate
             THEN {[az |-> a, alt |-> setAltitudeTarget(newAlt),
                    time |-> millis] : a \in setAzimuthTarget(newAz, curAz)}
             ELSE {st}
     ELSE {st}

\* The readings of millis() the model tells apart: 0, and each one more
\* than POSITION_TIMEOUT later than the one before.
ClockReadings == {k * (POSITION_TIMEOUT + 1) : k \in 0..MaxTime}

\* millis(): never earlier than the reading taken last, which is the one
\* lastPacketTime holds.
Millis == {t \in ClockReadings : t >= lastPacketTime}

(***************************************************************************)
(* AccelStepper::run(): at most one step, toward the target.               *)
(***************************************************************************)
StepToward(pos, target) ==
  IF target > pos THEN pos + 1 ELSE IF target < pos THEN pos - 1 ELSE pos

Run(pos, target, other) ==
  {pos} \cup {p \in {StepToward(pos, target)} : Abs(p) + Abs(other) <= MaxPos}

(***************************************************************************)
(* Records the clients send (each followed by a line feed).                *)
(***************************************************************************)
RecHigh == <<"A", "Z", ":", "-", "9", "A", "L", "T", ":", "6", "0", CR>>
RecLow == <<SP, "A", "Z", ":", "9", "A", "L", "T", ":", "-", "7", "0">>
RecNoAz == <<"A", "L", "T", ":", "2">>
RecNoAlt == <<"A", "Z", ":", "1">>
RecReversed == <<"A", "L", "T", ":", "5", "A", "Z", ":", "7">>

Records == {RecHigh, RecLow, RecNoAz, RecNoAlt, RecReversed}

NoWire == [to |-> 0, bytes |-> <<>>]

\* run() calls seen on each axis
NoTicks == [az |-> FALSE, alt |-> FALSE]
BothTicks == [az |-> TRUE, alt |-> TRUE]
TickAz(t) == [t EXCEPT !.az = TRUE]
TickAlt(t) == [t EXCEPT !.alt = TRUE]

(***************************************************************************)
(* Initial state: the globals as constructed, before setup() runs.         *)
(***************************************************************************)
Init ==
  /\ pc = "boot"
  /\ enPin = "UNSET"
  /\ forceStopPin \in {"LOW", "HIGH"}
  /\ storage \in {"mountFailed", "openFailed", "ok"}
  /\ isEmergencyStopped = FALSE
  /\ azHomed = FALSE
  /\ altHomed = FALSE
  /\ azPos = 0
  /\ azTarget = 0
  /\ altPos = 0
  /\ altTarget = 0
  /\ inputBuffer = <<>>
  /\ lastPacketTime = 0
  /\ listening = FALSE
  /\ client = 0
  /\ connected = FALSE
  /\ rx = <<>>
  /\ waiting = 0
  /\ waitingRx = <<>>
  /\ wire = NoWire
  /\ sent = 0
  /\ connsMade = 0
  /\ azResets = 0
  /\ altResets = 0
  /\ stopLatched = FALSE
  /\ req = 0
  /\ tracing = FALSE
  /\ arrived = <<>>
  /\ consumed = <<>>
  /\ handed = <<>>
  /\ ticked = NoTicks
  /\ readSaw = BothTicks

histVars == <<tracing, arrived, consumed, handed, ticked, readSaw>>
azVars == <<azHomed, azPos, azTarget, azResets>>
altVars == <<altHomed, altPos, altTarget, altResets>>
netVars == <<client, connected, rx, waiting, waitingRx, wire, sent, connsMade>>
stopVars == <<isEmergencyStopped, stopLatched>>

(***************************************************************************)
(* setup()                                                                 *)
(***************************************************************************)
\* Variant: a failed mount or open is reported and setup() goes on.
SetupInitGoesOn ==
  /\ pc = "boot"
  /\ enPin' = "HIGH"
  /\ pc' = "wifi"
  /\ UNCHANGED <<forceStopPin, stopVars, azVars, altVars, inputBuffer,
                 lastPacketTime, listening, netVars, req, storage, histVars>>

\* Variant: server.begin() ahead of the SPIFFS mount, so that the server
\* listens on the paths where setup() returns early.
SetupInitListensFirst ==
  /\ pc = "boot"
  /\ listening' = TRUE
  /\ IF storage = "ok"
     THEN enPin' = "HIGH" /\ pc' = "wifi"
     ELSE enPin' = enPin /\ pc' = "loop"
  /\ UNCHANGED <<forceStopPin, stopVars, azVars, altVars, inputBuffer,
                 lastPacketTime, netVars, req, storage, histVars>>

\* SPIFFS mount, config file, pin modes, EN_PIN HIGH, stepper parameters.
\* A failed mount or open returns from setup(); the Arduino core then
\* calls loop() all the same.
SetupInit ==
  /\ pc = "boot"
  /\ IF storage = "ok"
     THEN enPin' = "HIGH" /\ pc' = "wifi"
     ELSE enPin' = enPin /\ pc' = "loop"
  /\ UNCHANGED <<forceStopPin, stopVars, azVars, altVars, inputBuffer,
                 lastPacketTime, listening, netVars, req, storage, histVars>>

\* WiFi.status() == WL_CONNECTED ends the wait; server.begin()
WifiConnected ==
  /\ pc = "wifi"
  /\ listening' = TRUE
  /\ pc' = "homeAz"
  /\ UNCHANGED <<enPin, forceStopPin, stopVars, azVars, altVars, inputBuffer,
                 lastPacketTime, netVars, req, storage, histVars>>

\* if (!azHomed && digitalRead(BTN_HOME_AZ) == HIGH)
AzConfirm(btn) == ~azHomed /\ btn = "HIGH"

HomeAz ==
  /\ pc = "homeAz"
  /\ \E btn \in {"LOW", "HIGH"} :
       IF AzConfirm(btn)
       THEN /\ azPos' = 0
            /\ azTarget' = 0
            /\ azHomed' = TRUE
            /\ azResets' = azResets + 1
       ELSE UNCHANGED azVars
  /\ pc' = "homeAlt"
  /\ UNCHANGED <<enPin, forceStopPin, stopVars, altVars, inputBuffer,
                 lastPacketTime, listening, netVars, req, storage, histVars>>

\* if (!altHomed && digitalRead(BTN_HOME_ALT) == HIGH)
AltConfirm(btn) == ~altHomed /\ btn = "HIGH"

HomeAlt ==
  /\ pc = "homeAlt"
  /\ \E btn \in {"LOW", "HIGH"} :
       IF AltConfirm(btn)
       THEN /\ altPos' = 0
            /\ altTarget' = 0
            /\ altHomed' = TRUE
            /\ altResets' = altResets + 1
       ELSE UNCHANGED altVars
  /\ pc' = "homeFs"
  /\ UNCHANGED <<enPin, forceStopPin, stopVars, azVars, inputBuffer,
                 lastPacketTime, listening, netVars, req, storage, histVars>>

\* Variant: the homing loop ends as soon as one axis is homed.
HomingPendingEither == ~azHomed /\ ~altHomed

\* while (!azHomed || !altHomed)
HomingPending == ~azHomed \/ ~altHomed

\* The force-stop check that ends each homing iteration (while(1) when the
\* pin reads HIGH), then the loop condition; leaving the loop enables the
\* motors and starts the watchdog.
HomeForceStop ==
  /\ pc = "homeFs"
  /\ IF forceStopPin = "HIGH"
     THEN pc' = "halted" /\ UNCHANGED <<enPin, lastPacketTime>>
     ELSE IF HomingPending
     THEN pc' = "homeAz" /\ UNCHANGED <<enPin, lastPacketTime>>
     ELSE /\ enPin' = "LOW"
          /\ lastPacketTime' \in Millis
          /\ pc' = "loop"
  /\ UNCHANGED <<forceStopPin, stopVars, azVars, altVars, inputBuffer,
                 listening, netVars, req, storage, histVars>>

(***************************************************************************)
(* loop()                                                                  *)
(***************************************************************************)
\* if (digitalRead(FORCE_STOP_PIN) == HIGH)
StopSampled == forceStopPin = "HIGH"

\* Variant: the flag follows the pin instead of latching.
EmergencyLatchFollowsPin == StopSampled

\* isEmergencyStopped after the safety check: set when the pin reads HIGH,
\* never cleared
EmergencyLatch == isEmergencyStopped \/ StopSampled

\* Variant: the safety check leaves EN_PIN as it is.
EnableAfterCheckKept == enPin

\* EN_PIN after the safety check: digitalWrite(EN_PIN, HIGH) on a stop
EnableAfterCheck == IF StopSampled THEN "HIGH" ELSE enPin

\* Variant: loop() goes on after the safety check.
ReturnsEarlyNever(stopped) == FALSE

\* if (isEmergencyStopped) return;
ReturnsEarly(stopped) == stopped

\* Variant: server.available() is polled in every iteration.
NeedsClientAlways == TRUE

\* if (!client || !client.connected())
NeedsClient == client = 0 \/ ~connected

\* server.available(): the waiting connection, if the server listens
Available == IF listening THEN waiting ELSE 0

\* Variant: the line buffer is left as the last client left it.
BufferOnAcceptKept == inputBuffer

\* inputBuffer = ""; when server.available() yields a client
BufferOnAccept == <<>>

\* client = server.available(); if (client) { inputBuffer = ""; flush; ... }
\* client.flush() drops the bytes already received or keeps them,
\* depending on the core's version.
AcceptClient ==
  IF NeedsClient
  THEN IF Available = 0
       THEN /\ client' = 0
            /\ connected' = FALSE
            /\ rx' = <<>>
            /\ UNCHANGED <<inputBuffer, lastPacketTime, waiting, waitingRx>>
       ELSE /\ client' = Available
            /\ connected' = TRUE
            /\ rx' \in {waitingRx, <<>>}
            /\ waiting' = 0
            /\ waitingRx' = <<>>
            /\ inputBuffer' = BufferOnAccept
            /\ lastPacketTime' \in Millis
  ELSE UNCHANGED <<client, connected, rx, waiting, waitingRx, inputBuffer,
                   lastPacketTime>>

\* azStepper.run(); altStepper.run(); at the head of an iteration
LoopTicks == TickAlt(TickAz(NoTicks))

\* Variant: the drain loop only reads.
DrainTicksNone(t) == t

\* azStepper.run(); altStepper.run(); ahead of client.read()
DrainTicks(t) == TickAlt(TickAz(t))

\* The head of one loop() iteration: the safety check, the early return,
\* one run() of each stepper, and the client hand-over.
LoopHead ==
  /\ pc = "loop"
  /\ LET stopped == EmergencyLatch
     IN /\ isEmergencyStopped' = stopped
        /\ stopLatched' = (stopLatched \/ stopped)
        /\ enPin' = EnableAfterCheck
        /\ IF ReturnsEarly(stopped)
           THEN /\ pc' = "loop"
                /\ ticked' = IF tracing THEN NoTicks ELSE ticked
                /\ UNCHANGED <<azPos, altPos, client, connected, rx, waiting,
                               waitingRx, inputBuffer, lastPacketTime>>
           ELSE /\ azPos' \in Run(azPos, azTarget, altPos)
                /\ altPos' \in Run(altPos, altTarget, azPos')
                /\ ticked' = IF tracing THEN LoopTicks ELSE ticked
                /\ AcceptClient
                /\ pc' = IF client' # 0 /\ connected' THEN "drain" ELSE "loop"
  /\ UNCHANGED <<forceStopPin, azHomed, altHomed, azTarget, altTarget,
                 azResets, altResets, listening, wire, sent, connsMade, req,
                 storage, tracing, arrived, consumed, handed, readSaw>>

\* One turn of while (client.available() > 0): run(), run(), read a byte.
DrainRead ==
  /\ pc = "drain"
  /\ rx # <<>>
  /\ azPos' \in Run(azPos, azTarget, altPos)
  /\ altPos' \in Run(altPos, altTarget, azPos')
  /\ LET c == Head(rx)
         st == [az |-> azTarget, alt |-> altTarget, time |-> lastPacketTime]
     IN \E millis \in Millis :
        \E out \in IF c = LF
                   THEN processPacket(inputBuffer, azPos', st, millis)
                   ELSE {st} :
        /\ rx' = Tail(rx)
        /\ azTarget' = out.az
        /\ altTarget' = out.alt
        /\ lastPacketTime' = out.time
        /\ inputBuffer' = IF c = LF THEN <<>>
                          ELSE IF c # CR THEN Append(inputBuffer, c)
                          ELSE inputBuffer
        /\ consumed' = IF tracing /\ client = 1
                       THEN Append(consumed, c)
                       ELSE consumed
        /\ handed' = IF tracing /\ client = 1 /\ c = LF
                     THEN Append(handed, inputBuffer)
                     ELSE handed
  /\ readSaw' = IF tracing THEN DrainTicks(ticked) ELSE readSaw
  /\ ticked' = IF tracing THEN NoTicks ELSE ticked
  /\ pc' = "drain"
  /\ UNCHANGED <<enPin, forceStopPin, stopVars, azHomed, altHomed, azResets,
                 altResets, listening, client, connected, waiting, waitingRx,
                 wire, sent, connsMade, req, storage, tracing, arrived>>

\* client.available() == 0: loop() returns
DrainDone ==
  /\ pc = "drain"
  /\ rx = <<>>
  /\ pc' = "loop"
  /\ UNCHANGED <<enPin, forceStopPin, stopVars, azVars, altVars, inputBuffer,
                 lastPacketTime, listening, netVars, req, storage, histVars>>

(***************************************************************************)
(* Environment: the force-stop input and the TCP connections.              *)
(***************************************************************************)
progVars == <<pc, enPin, stopVars, azVars, altVars, inputBuffer,
              lastPacketTime, listening, req, storage>>
untraced == <<tracing, consumed, handed, ticked, readSaw>>

ForceStopChange ==
  /\ forceStopPin' = IF forceStopPin = "HIGH" THEN "LOW" ELSE "HIGH"
  /\ UNCHANGED <<progVars, netVars, histVars>>

\* A peer connects: the connection waits in the listening server's backlog.
Connect ==
  /\ listening
  /\ waiting = 0
  /\ connsMade < MaxConns
  /\ connsMade' = connsMade + 1
  /\ waiting' = connsMade + 1
  /\ UNCHANGED <<progVars, forceStopPin, client, connected, rx, waitingRx,
                 wire, sent, histVars>>

\* The peer of the served connection goes away.
Disconnect ==
  /\ client # 0
  /\ connected
  /\ connected' = FALSE
  /\ rx' = <<>>
  /\ wire' = IF wire.to = client THEN NoWire ELSE wire
  /\ UNCHANGED <<progVars, forceStopPin, client, waiting, waitingRx, sent,
                 connsMade, histVars>>

Open == {c \in {client} : c # 0 /\ connected} \cup {c \in {waiting} : c # 0}

\* A peer writes one record and its line feed.
Send(c, r) ==
  /\ c \in Open
  /\ wire = NoWire
  /\ sent < MaxRecords
  /\ wire' = [to |-> c, bytes |-> Append(r, LF)]
  /\ sent' = sent + 1
  /\ UNCHANGED <<progVars, forceStopPin, client, connected, rx, waiting,
                 waitingRx, connsMade, histVars>>

\* The next byte in flight arrives.
Deliver ==
  /\ wire.to # 0
  /\ IF wire.to = waiting
     THEN /\ Len(waitingRx) < MaxRx
          /\ waitingRx' = Append(waitingRx, Head(wire.bytes))
          /\ rx' = rx
     ELSE /\ Len(rx) < MaxRx
          /\ rx' = Append(rx, Head(wire.bytes))
          /\ waitingRx' = waitingRx
  /\ wire' = IF Len(wire.bytes) = 1 THEN NoWire
             ELSE [wire EXCEPT !.bytes = Tail(@)]
  /\ arrived' = IF tracing /\ wire.to = 1
                THEN Append(arrived, Head(wire.bytes))
                ELSE arrived
  /\ UNCHANGED <<progVars, forceStopPin, client, connected, waiting, sent,
                 connsMade, untraced>>

Next ==
  \/ SetupInit
  \/ WifiConnected
  \/ HomeAz
  \/ HomeAlt
  \/ HomeForceStop
  \/ LoopHead
  \/ DrainRead
  \/ DrainDone
  \/ ForceStopChange
  \/ Connect
  \/ Disconnect
  \/ \E c \in 1..MaxConns, r \in Records : Send(c, r)
  \/ Deliver

Spec == Init /\ [][Next]_vars

(***************************************************************************)
(* setAzimuthTarget on its own: the stepper stands at any of a sample of   *)
(* step counts (negative and several revolutions included) and one whole   *)
(* requested angle in [0, 360) is resolved.                                *)
(***************************************************************************)
MaxRevs == 2

AzOffsets == {0, 1, 64, 575, 1149, 1150, 1151, 2236, 2299}

AzSamples ==
  {r * AzStepsPerRev + o : r \in (0 - MaxRevs)..MaxRevs, o \in AzOffsets}

InitAz ==
  /\ pc = "resolve"
  /\ enPin = "LOW"
  /\ forceStopPin = "LOW"
  /\ storage = "ok"
  /\ isEmergencyStopped = FALSE
  /\ azHomed = TRUE
  /\ altHomed = TRUE
  /\ azPos \in AzSamples
  /\ azTarget = azPos
  /\ altPos = 0
  /\ altTarget = 0
  /\ inputBuffer = <<>>
  /\ lastPacketTime = 0
  /\ listening = TRUE
  /\ client = 0
  /\ connected = FALSE
  /\ rx = <<>>
  /\ waiting = 0
  /\ waitingRx = <<>>
  /\ wire = NoWire
  /\ sent = 0
  /\ connsMade = 0
  /\ azResets = 1
  /\ altResets = 1
  /\ stopLatched = FALSE
  /\ req \in 0..(FullTurn - 1)
  /\ tracing = FALSE
  /\ arrived = <<>>
  /\ consumed = <<>>
  /\ handed = <<>>
  /\ ticked = NoTicks
  /\ readSaw = BothTicks

\* setAzimuthTarget(req) with the stepper at azPos
ResolveAz ==
  /\ pc = "resolve"
  /\ azTarget' \in setAzimuthTarget(req, azPos)
  /\ pc' = "resolved"
  /\ UNCHANGED <<enPin, forceStopPin, stopVars, azHomed, azPos, azResets,
                 altVars, inputBuffer, lastPacketTime, listening, netVars,
                 req, storage, histVars>>

NextAz == ResolveAz

SpecAz == InitAz /\ [][NextAz]_vars

(***************************************************************************)
(* The main loop on its own, with the history variables recorded: the      *)
(* system has just entered READY and peers send any bytes, one at a time.  *)
(***************************************************************************)
MaxStream == 4     \* bytes sent on all connections altogether

StreamBytes == {"A", CR, LF}

InitStream ==
  /\ pc = "loop"
  /\ enPin = "LOW"
  /\ forceStopPin = "LOW"
  /\ storage = "ok"
  /\ isEmergencyStopped = FALSE
  /\ azHomed = TRUE
  /\ altHomed = TRUE
  /\ azPos = 0
  /\ azTarget = 0
  /\ altPos = 0
  /\ altTarget = 0
  /\ inputBuffer = <<>>
  /\ lastPacketTime = 0
  /\ listening = TRUE
  /\ client = 0
  /\ connected = FALSE
  /\ rx = <<>>
  /\ waiting = 0
  /\ waitingRx = <<>>
  /\ wire = NoWire
  /\ sent = 0
  /\ connsMade = 0
  /\ azResets = 1
  /\ altResets = 1
  /\ stopLatched = FALSE
  /\ req = 0
  /\ tracing = TRUE
  /\ arrived = <<>>
  /\ consumed = <<>>
  /\ handed = <<>>
  /\ ticked = NoTicks
  /\ readSaw = BothTicks

\* A peer writes one byte.
SendByte(c, b) ==
  /\ c \in Open
  /\ wire = NoWire
  /\ sent < MaxStream
  /\ wire' = [to |-> c, bytes |-> <<b>>]
  /\ sent' = sent + 1
  /\ UNCHANGED <<progVars, forceStopPin, client, connected, rx, waiting,
                 waitingRx, connsMade, histVars>>

NextStream ==
  \/ LoopHead
  \/ DrainRead
  \/ DrainDone
  \/ ForceStopChange
  \/ Connect
  \/ Disconnect
  \/ \E c \in 1..MaxConns, b \in StreamBytes : SendByte(c, b)
  \/ Deliver

SpecStream == InitStream /\ [][NextStream]_vars

(***************************************************************************)
(* Properties.                                                             *)
(***************************************************************************)
LoopPcs == {"loop", "drain"}
SetupPcs == {"boot", "wifi", "homeAz", "homeAlt", "homeFs"}

\* READY: setup() ran to its end and no stop is latched
Ready ==
  /\ pc \in LoopPcs
  /\ azHomed /\ altHomed
  /\ enPin = "LOW"
  /\ ~isEmergencyStopped

TargetsUnchanged == azTarget' = azTarget /\ altTarget' = altTarget

\* C1: once the emergency stop has been latched, no step (byte read, record,
\* command, environment change) changes the azimuth or the altitude target.
C1_TargetsFrozenAfterStop == [][stopLatched => TargetsUnchanged]_vars

\* A complete valid command sits unread behind a latched stop.
C1_Witness ==
  /\ stopLatched
  /\ inputBuffer = RecLow
  /\ rx = <<LF>>
  /\ azTarget = 0 /\ altTarget = 0

\* C2: while the force-stop input is HIGH in READY, no step changes an axis
\* target: a command decoded after the assertion is dropped.
C2_StopDropsLaterCommands ==
  [][(forceStopPin = "HIGH" /\ Ready) => TargetsUnchanged]_vars

\* C3: emergency stop is terminal: once latched, isEmergencyStopped stays
\* true and the motor enable output stays disabled (EN_PIN HIGH).
C3_StopIsTerminal == stopLatched => (isEmergencyStopped /\ enPin = "HIGH")

\* The stop is still in force after the pin was released and with a client
\* connected and bytes pending.
C3_Witness ==
  /\ stopLatched
  /\ forceStopPin = "LOW"
  /\ connected
  /\ rx # <<>>

\* C4: READY is reached only after both homing-confirm inputs have been
\* observed HIGH (each axis's origin reset exactly once, in either order);
\* one axis confirmed never suffices, and no origin is reset twice.
C4_ReadyOnlyAfterBothHomed ==
  /\ azResets <= 1 /\ altResets <= 1
  /\ azHomed <=> azResets = 1
  /\ altHomed <=> altResets = 1
  /\ (pc \in LoopPcs /\ listening) => (azResets = 1 /\ altResets = 1)

\* READY reached with each origin reset once.
C4_Witness == Ready /\ azResets = 1 /\ altResets = 1

\* C5: while the force-stop input is HIGH before READY, no homing input is
\* handled and the motor enable output is not enabled.
C5_BootStopHalts ==
  [][(forceStopPin = "HIGH" /\ pc \in SetupPcs)
       => (azHomed' = azHomed /\ altHomed' = altHomed /\ enPin' # "LOW")]_vars

\* C6: EN_PIN is LOW only if both axes are homed and no stop is latched;
\* it is never LOW during boot and homing, and it is LOW in the main loop
\* entered from the homing loop for as long as no stop is latched.
C6_EnabledOnlyWhenReady ==
  /\ enPin = "LOW" => (azHomed /\ altHomed /\ ~isEmergencyStopped)
  /\ pc \in SetupPcs \cup {"halted"} => enPin # "LOW"
  /\ (pc \in LoopPcs /\ listening /\ ~isEmergencyStopped) => enPin = "LOW"

\* A stop has just been latched in the main loop: EN_PIN is HIGH again.
C6_Witness ==
  /\ pc \in LoopPcs
  /\ azHomed /\ altHomed
  /\ isEmergencyStopped
  /\ enPin = "HIGH"

\* A step of the drain loop that reads the LF ending a record with both
\* markers while commands are let through: the record reaches the resolver.
CommandStep ==
  /\ pc = "drain"
  /\ rx # <<>>
  /\ Head(rx) = LF
  /\ rx' = Tail(rx)
  /\ connected' = connected
  /\ HasMarkers(IndexOf(Trim(inputBuffer), AZ_MARK),
                IndexOf(Trim(inputBuffer), ALT_MARK))
  /\ CommandGate

\* C7: a command reaches the target resolver only in READY (both axes
\* homed, motors enabled, no stop latched), on every path through setup.
C7_ResolverOnlyWhenReady == [][CommandStep => Ready]_vars

\* A command has been resolved in READY.
C7_Witness == Ready /\ pc = "drain" /\ altTarget = 480 /\ azTarget # 0

\* the distance round the circle between two angles, in units
CircDist(a, b) ==
  LET turn == FullTurn * AzStepsPerRev
      d == (a - b) % turn
  IN IF d > turn - d THEN turn - d ELSE d

\* C8 (as stated): the resolved target's angle modulo 360 equals the
\* requested angle and its delta from the current position is in [-180, 180].
C8_AzExactAngle ==
  pc = "resolved" =>
    /\ Abs(azTarget - azPos) * FullTurn <= (FullTurn \div 2) * AzStepsPerRev
    /\ CircDist(azTarget * FullTurn, req * AzStepsPerRev) = 0

\* C8 (amended): for every sampled current step count (negative and several
\* revolutions included) and every requested whole angle in [0, 360), the
\* resolved target's delta from the current position is in [-180, 180]
\* degrees and its angle modulo 360 is within one motor step of the request.
C8_AzShortestWithinOneStep ==
  pc = "resolved" =>
    /\ Abs(azTarget - azPos) * FullTurn <= (FullTurn \div 2) * AzStepsPerRev
    /\ CircDist(azTarget * FullTurn, req * AzStepsPerRev) <= FullTurn

\* From about 350 degrees, two revolutions below zero, a request of 10
\* degrees is resolved forwards through the wrap.
C8_Witness ==
  /\ pc = "resolved"
  /\ azPos = 2236 - 2 * AzStepsPerRev
  /\ req = 10
  /\ azTarget > azPos

\* The step of the drain loop that reads the LF ending the record held in
\* inputBuffer.
RecordEnds ==
  /\ pc = "drain"
  /\ rx # <<>>
  /\ Head(rx) = LF
  /\ rx' = Tail(rx)
  /\ connected' = connected

\* a record as inputBuffer holds it: the CR bytes are not stored
Stored(r) == SelectSeq(r, LAMBDA c : c # CR)

AltMaxSteps == TruncDiv(ALT_MAX * AltStepsPerRev, FullTurn)
AltMinSteps == TruncDiv(ALT_MIN * AltStepsPerRev, FullTurn)

\* C9: the altitude target always lies between the step equivalents of
\* ALT_MIN and ALT_MAX; a command asking for more than ALT_MAX (60) sets
\* exactly the step equivalent of ALT_MAX and one asking for less than
\* ALT_MIN (-70) exactly that of ALT_MIN.
C9_AltitudeClamped ==
  [][/\ altTarget' \in AltMinSteps..AltMaxSteps
     /\ (RecordEnds /\ inputBuffer = Stored(RecHigh) /\ CommandGate)
          => altTarget' = AltMaxSteps
     /\ (RecordEnds /\ inputBuffer = Stored(RecLow) /\ CommandGate)
          => altTarget' = AltMinSteps]_vars

\* A request of -70 degrees has been resolved to the lower limit.
C9_Witness == pc = "drain" /\ altTarget = AltMinSteps /\ AltMinSteps = -444

\* C10: a record without 'AZ:' or without 'ALT:' changes neither axis target
\* nor the watchdog timestamp, enters no error state (the drain loop goes
\* on, no stop is latched) and leaves an empty buffer for the next record.
C10_MarkerlessRecordIgnored ==
  [][(/\ RecordEnds
      /\ \/ IndexOf(Trim(inputBuffer), AZ_MARK) = -1
         \/ IndexOf(Trim(inputBuffer), ALT_MARK) = -1)
       => /\ TargetsUnchanged
          /\ lastPacketTime' = lastPacketTime
          /\ isEmergencyStopped' = isEmergencyStopped
          /\ enPin' = enPin
          /\ pc' = "drain"
          /\ inputBuffer' = <<>>]_vars

\* A record without 'AZ:' is complete and its LF is about to be read.
C10_Witness ==
  /\ Ready
  /\ pc = "drain"
  /\ inputBuffer = RecNoAz
  /\ rx = <<LF>>

\* a byte stream with every carriage return removed
NoCR(s) == SelectSeq(s, LAMBDA c : c # CR)

\* the positions of the line feeds of t, and the last one (0: none)
LFs(t) == {i \in 1..Len(t) : t[i] = LF}
LastLF(t, upto) ==
  IF \E i \in LFs(t) : i < upto
  THEN CHOOSE i \in LFs(t) : i < upto /\ \A j \in LFs(t) : j < upto => j <= i
  ELSE 0

\* t split at each line feed: the complete lines in order, and the rest
Lines(t) ==
  LET ends == LFs(t)
      nth(k) == CHOOSE i \in ends : Cardinality({j \in ends : j <= i}) = k
  IN [k \in 1..Cardinality(ends) |->
        SubSeq(t, LastLF(t, nth(k)) + 1, nth(k) - 1)]
Rest(t) == SubSeq(t, LastLF(t, Len(t) + 1) + 1, Len(t))

\* connection 1 is open; its bytes received and not yet read
Conn1Served == client = 1 /\ connected
Conn1Open == Conn1Served \/ waiting = 1
Pending1 ==
  IF Conn1Served THEN rx ELSE IF waiting = 1 THEN waitingRx ELSE <<>>

\* The records handed over and the line buffer are those of the stream s.
Framed(s) ==
  /\ handed = Lines(NoCR(s))
  /\ Conn1Served => inputBuffer = Rest(NoCR(s))
  /\ \A i \in 1..Len(inputBuffer) : inputBuffer[i] \notin {CR, LF}

\* C11: while connection 1 is open, the records handed to processPacket are
\* the bytes received on it and no longer pending, with every carriage
\* return removed and split at each line feed, however the bytes came in;
\* the line buffer holds the unfinished line, without CR or LF.
C11_RecordsAreTheStream ==
  (tracing /\ Conn1Open) =>
     Framed(SubSeq(arrived, 1, Len(arrived) - Len(Pending1)))

\* The same of the bytes client.read() returned.
DecoderFraming ==
  (tracing /\ Conn1Open) => Framed(consumed)

DecoderFramingSeen ==
  /\ tracing
  /\ Conn1Served
  /\ Len(handed) = 2
  /\ handed[1] = <<"A">>
  /\ CR \in {consumed[i] : i \in 1..Len(consumed)}

\* The operational states the program's variables tell apart: nothing in
\* it reads POSITION_TIMEOUT or compares lastPacketTime with millis().
OperationalState ==
  IF pc = "halted" \/ isEmergencyStopped THEN "EMERGENCY_STOPPED"
  ELSE IF Ready THEN "READY"
  ELSE IF pc \in {"homeAz", "homeAlt", "homeFs"} THEN "HOMING"
  ELSE "BOOT"

\* C12: a command accepted in READY more than POSITION_TIMEOUT after the
\* last reset of the watchdog timestamp finds the system in HOLD_STALE (and
\* returns it to READY).
C12_StaleHoldEntered ==
  [][(CommandStep /\ Ready
        /\ lastPacketTime' - lastPacketTime > POSITION_TIMEOUT)
       => (OperationalState = "HOLD_STALE" /\ OperationalState' = "READY")]_vars

\* Entry to READY: the homing loop ends at its force-stop check.
ReadyEntered == pc = "homeFs" /\ pc' = "loop"

\* C13: lastPacketTime changes only when a command is accepted or READY
\* is entered; every other step leaves it unchanged.
C13_WatchdogOnlyOnCommand ==
  [][lastPacketTime' # lastPacketTime => (CommandStep \/ ReadyEntered)]_vars

\* A step of the drain loop that reads a byte.
ByteRead ==
  /\ pc = "drain"
  /\ rx # <<>>
  /\ rx' = Tail(rx)
  /\ connected' = connected

\* A step that runs the head of a loop() iteration: no input of the
\* environment changes and the peer does not go away.
LoopHeadStep ==
  /\ pc = "loop"
  /\ UNCHANGED <<forceStopPin, wire, sent, connsMade>>
  /\ connected => connected'

\* C14: the head of every loop iteration that is not emergency-stopped has
\* run() called on both axes, and every byte read finds run() called on both
\* axes since the byte read before it.
C14_TicksBetweenReads ==
  [][/\ (LoopHeadStep /\ ~isEmergencyStopped') => ticked' = BothTicks
     /\ ByteRead => readSaw' = BothTicks]_vars

\* Three bytes have been read one after the other, each after its ticks.
C14_Witness ==
  /\ tracing
  /\ pc = "drain"
  /\ Len(consumed) >= 3
  /\ ticked = NoTicks
  /\ readSaw = BothTicks

\* the 0-based positions at which pat occurs in s
Occurrences(s, pat) ==
  {i \in 0..(Len(s) - Len(pat)) : SubSeq(s, i + 1, i + Len(pat)) = pat}

\* 'AZ:' and 'ALT:' both occur, and 'ALT:' only before 'AZ:'
ReversedOnly(s) ==
  /\ Occurrences(s, AZ_MARK) # {}
  /\ Occurrences(s, ALT_MARK) # {}
  /\ \A a \in Occurrences(s, AZ_MARK), l \in Occurrences(s, ALT_MARK) : l < a

\* C15: a record in which 'ALT:' occurs only before 'AZ:' produces no
\* command: it changes neither axis target nor the watchdog timestamp.
C15_ReversedRecordIgnored ==
  [][(RecordEnds /\ ReversedOnly(Trim(inputBuffer)))
       => (TargetsUnchanged /\ lastPacketTime' = lastPacketTime)]_vars

\* a client is being served
Serving == client # 0 /\ connected

\* C16: the client changes, and a waiting connection leaves the server's
\* backlog, only at the head of a loop iteration that finds no client or a
\* disconnected one; while a client is served the waiting connection stays
\* in the backlog and the bytes it has received stay unread.
C16_OneClientAtATime ==
  [][/\ client' # client => (pc = "loop" /\ ~Serving)
     /\ (waiting # 0 /\ waiting' # waiting)
          => (pc = "loop" /\ ~Serving /\ client' = waiting)
     /\ Serving => /\ Len(waitingRx') >= Len(waitingRx)
                   /\ SubSeq(waitingRx', 1, Len(waitingRx)) = waitingRx]_vars

\* A second connection waits, with a byte received, while the first is
\* served.
C16_Witness ==
  /\ pc = "drain"
  /\ client = 1
  /\ connected
  /\ waiting = 2
  /\ waitingRx # <<>>

\* C17: when the SPIFFS mount or the opening of the configuration file
\* fails, the system never enters the homing phase (no WiFi wait, no homing
\* loop, no origin reset) and never reaches READY.
C17_InitFailureIsFatal ==
  storage # "ok" =>
    /\ pc \in {"boot"} \cup LoopPcs
    /\ ~azHomed /\ ~altHomed
    /\ azResets = 0 /\ altResets = 0
    /\ enPin # "LOW"
    /\ ~Ready

\* loop() runs after setup() returned on a file that would not open.
C17_Witness ==
  /\ storage = "openFailed"
  /\ pc = "loop"
  /\ isEmergencyStopped
  /\ forceStopPin = "LOW"

\* C18: in the step that latches the emergency stop and in every step after
\* it, neither axis position changes and no client byte is read, whatever
\* targets are outstanding.
C18_StopFreezesMotion ==
  [][stopLatched' => (azPos' = azPos /\ altPos' = altPos /\ ~ByteRead)]_vars

\* Stopped short of the azimuth target, with a byte unread.
C18_Witness ==
  /\ stopLatched
  /\ azPos # azTarget
  /\ rx # <<>>

\* C19: a step that accepts a new connection leaves the line buffer empty,
\* whatever a previous client left in it.
C19_BufferEmptiedOnAccept ==
  [][(client' # client /\ client' # 0) => inputBuffer' = <<>>]_vars

\* The second connection waits while the line buffer holds the unfinished
\* record of the first, which has gone away.
C19_Witness ==
  /\ pc = "loop"
  /\ client = 1
  /\ ~connected
  /\ inputBuffer # <<>>
  /\ waiting = 2

====
